---- MODULE Spec2Model ----
(***************************************************************************)
(* Session state manager of the Solana agent authentication plugin:        *)
(* AuthStateManager (src/authStateManager.ts) over the storage backends    *)
(* (src/storage.ts) and the AES-256-CBC cipher (utils/encryption.ts).      *)
(*                                                                         *)
(* Every async method is cut at the awaits behind which real I/O or a      *)
(* timer can sit; the synchronous code between two such awaits is one      *)
(* atomic step, as the JavaScript event loop runs it.  Several calls may   *)
(* be in flight at once (Procs), the wall clock advances between steps.    *)
(***************************************************************************)
EXTENDS Integers, Sequences, FiniteSets, TLC

\* ------------------------------------------------------------------ bounds
MaxTicks == 2
Procs == {"p1", "p2"}
Keys == {"solana-auth"}

\* ------------------------------------------------------- program constants
MsPerSecond == 1000
DefaultTTL == 86400
KeyBytes == 32
PadChar == 32

\* one clock step of the model: one second of wall-clock time
TickMs == MsPerSecond
MaxTime == MaxTicks * TickMs

\* --------------------------------------------------------------- optionals
None == << >>
Some(x) == << x >>
IsSome(o) == o # << >>
Get(o) == o[1]

\* ------------------------------------------------------------ AuthState
\* refreshToken?: string, here the value of a record that carries none
NoToken == "undefined"

AuthState(w, tok, ts, exp) ==
    [walletPublicKey |-> w, signature |-> "sig",
     timestamp |-> ts, expiresAt |-> exp, refreshToken |-> tok,
     permissions |-> {"transfer", "sign"}, network |-> "mainnet-beta"]

\* records a caller may hand to saveAuthState / refreshAuthState
InputRecords ==
    { AuthState("w1", "refresh-token", 0, 1000), AuthState("w2", NoToken, 0, 2000) }

\* records a caller hands to refreshAuthState directly
RefreshInputs == { AuthState("w1", "refresh-token", 0, 1000) }

\* ---------------------------------------------------------------- settings
Unset == "unset"
DefaultKey == <<100, 101, 102, 97, 117, 108, 116, 45, 107, 101, 121>>
KeyA == <<65>>
KeyB == <<66>>
\* "s3" stands for any storage type the switch in storeData does not know
StorageSettings == {Unset, "database", "memory", "s3"}

Setting(st, key, ttl, auto) ==
    [authStateStorageType |-> st, ENCRYPTION_KEY |-> key,
     authStateTTL |-> ttl, autoRefresh |-> auto]

\* the configurations the manager is run under: nothing set, and the
\* documented options (storage type, key, TTL, autoRefresh: true) set
Configs ==
    { Setting(Unset, None, None, Unset), Setting(Unset, None, None, "true") }
    \cup { Setting(st, Some(KeyA), Some(1), "true") : st \in StorageSettings }

VARIABLES now, settings, dbAdapter, cache, files, db, proc
vars == <<now, settings, dbAdapter, cache, files, db, proc>>

\* ------------------------------------------------------------------ cipher
\* randomBytes(16): the value never decides a branch of the manager, decryptData
\* reads it back from the envelope
IVs == {1}

\* key.padEnd(32)
PadEnd(s, n) ==
    IF Len(s) >= n THEN s ELSE s \o [i \in 1..(n - Len(s)) |-> PadChar]

\* Buffer.from(key.padEnd(32).slice(0, 32))
NormalizeKey(key) == SubSeq(PadEnd(key, KeyBytes), 1, KeyBytes)

\* a plaintext is either the JSON text of a record or bytes that are no JSON
JSONStringify(authState) == [json |-> TRUE, val |-> Some(authState)]
Garbage == [json |-> FALSE, val |-> None]

encryptData_RawKey(data, key, iv) ==
    [kind |-> "env", iv |-> iv, key |-> key, pt |-> data]

encryptData(data, key, iv) ==
    [kind |-> "env", iv |-> iv, key |-> NormalizeKey(key), pt |-> data]

\* what sits in a file or a database row: "env" is iv:ciphertext as written by
\* encryptData, "tampered" an envelope whose ciphertext bytes were altered,
\* "malformed" a text without a usable iv:ciphertext structure
Malformed == [kind |-> "malformed", iv |-> 0, key |-> << >>, pt |-> Garbage]
Tampered == [kind |-> "tampered", iv |-> 1, key |-> << >>, pt |-> Garbage]
ForeignKey == encryptData(JSONStringify(AuthState("w1", NoToken, 0, 86400000)), KeyB, 1)

\* the outcomes of decryptData: ok = FALSE is a thrown error (invalid IV,
\* bad padding in decipher.final), ok = TRUE returns the text pt.  CBC carries
\* no authentication: under a wrong key or on altered ciphertext the padding
\* check usually throws, and when the last block happens to unpad, the call
\* returns bytes that are not the original text.
decryptData(encryptedData, key) ==
    IF encryptedData.kind = "malformed"
    THEN {[ok |-> FALSE, pt |-> Garbage]}
    ELSE IF encryptedData.kind = "env" /\ encryptedData.key = NormalizeKey(key)
    THEN {[ok |-> TRUE, pt |-> encryptedData.pt]}
    ELSE {[ok |-> FALSE, pt |-> Garbage], [ok |-> TRUE, pt |-> Garbage]}

\* --------------------------------------------------------- runtime settings
\* this.runtime.getSetting(name) || default, read at every call
StorageType_MemoryAsFile ==
    IF settings.authStateStorageType \in {Unset, "memory"} THEN "encrypted-file"
    ELSE settings.authStateStorageType

StorageType ==
    IF settings.authStateStorageType = Unset THEN "encrypted-file"
    ELSE settings.authStateStorageType
EncryptionKey ==
    IF settings.ENCRYPTION_KEY = None THEN DefaultKey ELSE Get(settings.ENCRYPTION_KEY)
\* parseInt(getSetting("authStateTTL") || "86400", 10) * 1000
TTL ==
    (IF settings.authStateTTL = None THEN DefaultTTL ELSE Get(settings.authStateTTL))
    * MsPerSecond
\* getSetting("autoRefresh") === true
AutoRefresh == settings.autoRefresh = "true"

\* ------------------------------------------------------------ call results
Pending == [tag |-> "pending", val |-> None, err |-> ""]
Void == [tag |-> "void", val |-> None, err |-> ""]
Null == [tag |-> "null", val |-> None, err |-> ""]
Value(authState) == [tag |-> "value", val |-> Some(authState), err |-> ""]
Thrown(e) == [tag |-> "error", val |-> None, err |-> e]

\* what one run of an action handler holds: the connected wallet, the
\* challenge, the message the signature was requested for, the signature, the
\* arguments and the answer of verifySignature, the record to save, the
\* handler's return value, and how often it called the wallet adapter
NoAct ==
    [wallet |-> None, challenge |-> None, signedMsg |-> None,
     signature |-> None, verified |-> None, authState |-> None,
     ret |-> "none", nConnect |-> 0, nChallenge |-> 0, nSign |-> 0]

\* one call of a manager method: where it stands and what it holds
Idle ==
    [pc |-> "idle", op |-> "none", key |-> "", arg |-> None, blob |-> None,
     rec |-> None, out |-> None, res |-> Pending, via |-> "",
     refreshRet |-> Pending, storeErr |-> "",
     nRetrieve |-> 0, nDecrypt |-> 0, nStore |-> 0, nRefresh |-> 0,
     nUnlink |-> 0, act |-> NoAct]

Call(opName, k) == [Idle EXCEPT !.pc = "run", !.op = opName, !.key = k]
\* a settled call keeps its argument, its outcome and its trace; its locals
\* are gone
Done(q, r) ==
    [q EXCEPT !.pc = "done", !.res = r, !.blob = None,
              !.rec = None, !.out = None]

Free(p) == proc[p].pc \in {"idle", "done"}

isValid_Inclusive(authState) == now <= authState.expiresAt

\* AuthStateManager.isValid
isValid(authState) == now < authState.expiresAt

CachePut_Skip(c, k, authState) == c

CachePut_OtherNetwork(c, k, authState) ==
    [c EXCEPT ![k] = Some([authState EXCEPT !.network = "devnet"])]

\* this.authCache[serviceKey] = authState
CachePut(c, k, authState) == [c EXCEPT ![k] = Some(authState)]

\* ----------------------------------------------------------------- storage
\* the segments of a session key between its '/' separators
KeySegments(k) == IF k = "./solana-auth" THEN <<".", "solana-auth">> ELSE <<k>>

\* path.join resolves the "." segments away
RECURSIVE Normalize(_)
Normalize(segs) ==
    IF segs = << >> THEN << >>
    ELSE IF Head(segs) = "." THEN Normalize(Tail(segs))
    ELSE <<Head(segs)>> \o Normalize(Tail(segs))

\* storeInFile line 70, retrieveFromFile line 92: the file of key k below
\* data/auth is path.join(storageDir, `${key}.auth`)
FilePath(k) ==
    LET segs == KeySegments(k)
        n == Len(segs) IN
    Normalize(SubSeq(segs, 1, n - 1) \o <<segs[n] \o ".auth">>)

storeInFile_KeepsExisting(store, k, data) ==
    IF store[FilePath(k)] = None \/ data = None
    THEN [store EXCEPT ![FilePath(k)] = data] ELSE store

\* storeInFile: the file of key k is written, or unlinked when data is null
\* (None); an absent file is no error on delete
storeInFile(store, k, data) == [store EXCEPT ![FilePath(k)] = data]

\* databaseAdapter.upsert("auth_state", {key, data}) / delete("auth_state", {key})
storeInDatabase(table, k, data) == [table EXCEPT ![k] = data]

RefreshReturn_Rethrow(q, ok, e) ==
    [q EXCEPT !.refreshRet = IF ok THEN Value(Get(q.rec)) ELSE Thrown(e),
              !.storeErr = e]

FileWriteOutcomes_NoExistsCheck(k, data) ==
    IF data = None /\ files[FilePath(k)] = None THEN {FALSE} ELSE BOOLEAN

\* storeInFile lines 73-82: writeFileSync may throw; on delete, unlinkSync is
\* only reached when the file exists
FileWriteOutcomes(k, data) ==
    IF data = None /\ files[FilePath(k)] = None THEN {TRUE} ELSE BOOLEAN

FileReadOutcomes_NoExistsCheck(k) == IF files[FilePath(k)] = None THEN {FALSE} ELSE BOOLEAN

\* retrieveFromFile lines 94-98: readFileSync is only reached when the file
\* exists
FileReadOutcomes(k) == IF files[FilePath(k)] = None THEN {TRUE} ELSE BOOLEAN

\* what the caller of storeData does once storeData has resolved (ok) or
\* thrown e: saveAuthState and clearAuthState let the error through,
\* refreshAuthState catches it and returns null
RefreshReturn(q, ok, e) ==
    [q EXCEPT !.refreshRet = IF ok THEN Value(Get(q.rec)) ELSE Null,
              !.storeErr = e]

LoadAfterRefresh_DropsResult(q) == Done(q, Null)

\* loadAuthState lines 100-107: if (refreshedState) return refreshedState; ... return null
LoadAfterRefresh(q) ==
    IF q.refreshRet.tag = "value" THEN Done(q, q.refreshRet) ELSE Done(q, Null)

AfterStore_Retry(q, ok, e) ==
    IF ~ok /\ q.nStore < 2 THEN [q EXCEPT !.pc = "store"]
    ELSE
    CASE q.op \in {"save", "clear"} ->
            IF ok THEN Done(q, Void) ELSE Done([q EXCEPT !.storeErr = e], Thrown(e))
      [] q.op = "refresh" ->
            Done(RefreshReturn(q, ok, e), RefreshReturn(q, ok, e).refreshRet)
      [] q.op = "load" ->
            LoadAfterRefresh(RefreshReturn(q, ok, e))

\* storeData has resolved or thrown: the caller returns, no second attempt
AfterStore(q, ok, e) ==
    CASE q.op \in {"save", "clear"} ->
            IF ok THEN Done(q, Void) ELSE Done([q EXCEPT !.storeErr = e], Thrown(e))
      [] q.op = "refresh" ->
            Done(RefreshReturn(q, ok, e), RefreshReturn(q, ok, e).refreshRet)
      [] q.op = "load" ->
            LoadAfterRefresh(RefreshReturn(q, ok, e))

\* storeInFile lines 73-76: a deletion unlinks the file only if it exists
Unlinked(q, k, data) ==
    IF data = None /\ files[FilePath(k)] # None THEN [q EXCEPT !.nUnlink = @ + 1] ELSE q

\* storeData(key, data, storageType, runtime) up to its first real await;
\* q is the call, already holding what the caller did before
storeData(p, q0, k, data) ==
    LET q == [q0 EXCEPT !.nStore = @ + 1] IN
    CASE StorageType = "encrypted-file" ->
            /\ \E ok \in FileWriteOutcomes(k, data) :
                 IF ok
                 THEN /\ files' = storeInFile(files, k, data)
                      /\ proc' = [proc EXCEPT ![p] =
                                    AfterStore(Unlinked(q, k, data), TRUE, "")]
                 ELSE /\ files' = files
                      /\ proc' = [proc EXCEPT ![p] = AfterStore(q, FALSE, "io")]
            /\ db' = db
      [] StorageType = "database" ->
            /\ IF dbAdapter
               THEN proc' = [proc EXCEPT ![p] = [q EXCEPT !.pc = "dbwrite"]]
               ELSE proc' = [proc EXCEPT ![p] = AfterStore(q, FALSE, "no-adapter")]
            /\ UNCHANGED <<files, db>>
      [] StorageType = "memory" ->
            /\ proc' = [proc EXCEPT ![p] = AfterStore(q, TRUE, "")]
            /\ UNCHANGED <<files, db>>
      [] OTHER ->
            /\ proc' = [proc EXCEPT ![p] = AfterStore(q, FALSE, "unsupported")]
            /\ UNCHANGED <<files, db>>

\* ------------------------------------------------------------------- Init
Init ==
    /\ now = 0
    /\ settings \in Configs
    /\ dbAdapter \in (IF settings.authStateStorageType = "database" THEN BOOLEAN ELSE {TRUE})
    /\ cache = [k \in Keys |-> None]
    /\ files = [f \in {FilePath(k) : k \in Keys} |-> None]
    /\ db = [k \in Keys |-> None]
    /\ proc = [p \in Procs |-> Idle]

\* ------------------------------------------------------------ environment
\* the wall clock (Date.now()) moves on between any two steps
Tick ==
    /\ now < MaxTime
    /\ now' = now + TickMs
    /\ UNCHANGED <<settings, dbAdapter, cache, files, db, proc>>

\* something outside the manager rewrites a stored blob: truncates it, alters
\* ciphertext bytes, or replaces it by the same record under another key
Rewritten(blob) == {Malformed, Tampered, ForeignKey} \ {blob}

Tamper(k) ==
    /\ \/ /\ IsSome(files[FilePath(k)])
          /\ \E b \in Rewritten(Get(files[FilePath(k)])) :
                files' = [files EXCEPT ![FilePath(k)] = Some(b)]
          /\ db' = db
       \/ /\ IsSome(db[k])
          /\ \E b \in Rewritten(Get(db[k])) :
                db' = [db EXCEPT ![k] = Some(b)]
          /\ files' = files
    /\ UNCHANGED <<now, settings, dbAdapter, cache, proc>>

\* --------------------------------------------------------- saveAuthState
\* lines 42-48: cache write and encryption, up to the await before storeData
SaveStart_Plaintext(q, authState, iv) ==
    [q EXCEPT !.rec = Some(authState),
              !.out = Some([kind |-> "plain", iv |-> 0, key |-> << >>,
                            pt |-> JSONStringify(authState)]),
              !.pc = "store"]

\* lines 45-48: the record is serialised and encrypted under the configured key
SaveStart(q, authState, iv) ==
    [q EXCEPT !.rec = Some(authState),
              !.out = Some(encryptData(JSONStringify(authState), EncryptionKey, iv)),
              !.pc = "store"]

SaveBegin(p, k, authState) ==
    /\ Free(p)
    /\ cache' = CachePut(cache, k, authState)
    /\ \E iv \in IVs :
         proc' = [proc EXCEPT ![p] =
                    SaveStart([Call("save", k) EXCEPT !.arg = Some(authState)], authState, iv)]
    /\ UNCHANGED <<now, settings, dbAdapter, files, db>>

\* lines 51-52: the storage type is read and storeData is called
SaveStore(p) ==
    /\ proc[p].pc = "store"
    /\ storeData(p, proc[p], proc[p].key, proc[p].out)
    /\ UNCHANGED <<now, settings, dbAdapter, cache>>

DbWriteDone_WaitsForOthers(p) ==
    /\ proc[p].pc = "dbwrite"
    /\ \A q \in Procs \ {p} : Free(q)
    /\ \E ok \in BOOLEAN :
         IF ok
         THEN /\ db' = storeInDatabase(db, proc[p].key, proc[p].out)
              /\ proc' = [proc EXCEPT ![p] = AfterStore(proc[p], TRUE, "")]
         ELSE /\ db' = db
              /\ proc' = [proc EXCEPT ![p] = AfterStore(proc[p], FALSE, "io")]
    /\ UNCHANGED <<now, settings, dbAdapter, cache, files>>

\* the database adapter's upsert or delete settles
DbWriteDone(p) ==
    /\ proc[p].pc = "dbwrite"
    /\ \E ok \in BOOLEAN :
         IF ok
         THEN /\ db' = storeInDatabase(db, proc[p].key, proc[p].out)
              /\ proc' = [proc EXCEPT ![p] = AfterStore(proc[p], TRUE, "")]
         ELSE /\ db' = db
              /\ proc' = [proc EXCEPT ![p] = AfterStore(proc[p], FALSE, "io")]
    /\ UNCHANGED <<now, settings, dbAdapter, cache, files>>

\* -------------------------------------------------------- refreshAuthState
Refreshed_FixedDay(authState) ==
    [authState EXCEPT !.timestamp = now, !.expiresAt = now + DefaultTTL * MsPerSecond]

\* lines 126-132
Refreshed(authState) ==
    [authState EXCEPT !.timestamp = now, !.expiresAt = now + TTL]

RefreshStart_StoresOld(q, authState, iv) ==
    SaveStart([q EXCEPT !.nRefresh = @ + 1], authState, iv)

\* lines 121-134 up to the await inside saveAuthState
RefreshStart(q, authState, iv) ==
    SaveStart([q EXCEPT !.nRefresh = @ + 1], Refreshed(authState), iv)

RefreshBegin(p, k, authState) ==
    /\ Free(p)
    /\ cache' = CachePut(cache, k, Refreshed(authState))
    /\ \E iv \in IVs :
         proc' = [proc EXCEPT ![p] =
                    RefreshStart([Call("refresh", k) EXCEPT !.arg = Some(authState)],
                                 authState, iv)]
    /\ UNCHANGED <<now, settings, dbAdapter, files, db>>

\* ---------------------------------------------------------- clearAuthState
ClearBegin_KeepsCache(p, k) ==
    /\ Free(p)
    /\ cache' = cache
    /\ storeData(p, Call("clear", k), k, None)
    /\ UNCHANGED <<now, settings, dbAdapter>>

\* lines 156-160
ClearBegin(p, k) ==
    /\ Free(p)
    /\ cache' = [cache EXCEPT ![k] = None]
    /\ storeData(p, Call("clear", k), k, None)
    /\ UNCHANGED <<now, settings, dbAdapter>>

\* ----------------------------------------------------------- loadAuthState
CacheHit_Never(k) == FALSE

\* lines 64-70: the cache holds a record for k that is still valid
CacheHit(k) == IsSome(cache[k]) /\ isValid(Get(cache[k]))

\* retrieveData(key, storageType, runtime) up to its first real await
retrieveData(p, q0, k) ==
    LET q == [q0 EXCEPT !.nRetrieve = @ + 1] IN
    CASE StorageType = "encrypted-file" ->
            \E ok \in FileReadOutcomes(k) :
              proc' = [proc EXCEPT ![p] =
                         IF ok THEN [q EXCEPT !.pc = "retrieved", !.blob = files[FilePath(k)]]
                         ELSE Done(q, Thrown("io"))]
      [] StorageType = "database" ->
            proc' = [proc EXCEPT ![p] =
                       IF dbAdapter THEN [q EXCEPT !.pc = "dbfind"]
                       ELSE Done(q, Thrown("no-adapter"))]
      [] StorageType = "memory" ->
            proc' = [proc EXCEPT ![p] = [q EXCEPT !.pc = "retrieved", !.blob = None]]
      [] OTHER ->
            proc' = [proc EXCEPT ![p] = Done(q, Thrown("unsupported"))]

\* lines 62-74
LoadBegin(p, k) ==
    /\ Free(p)
    /\ IF CacheHit(k)
       THEN proc' = [proc EXCEPT ![p] =
                       Done([Call("load", k) EXCEPT !.via = "cache"], Value(Get(cache[k])))]
       ELSE retrieveData(p, Call("load", k), k)
    /\ UNCHANGED <<now, settings, dbAdapter, cache, files, db>>

\* the database adapter's findOne settles
LoadDbFound(p) ==
    /\ proc[p].pc = "dbfind"
    /\ \E ok \in BOOLEAN :
         proc' = [proc EXCEPT ![p] =
                    IF ok THEN [proc[p] EXCEPT !.pc = "retrieved", !.blob = db[proc[p].key]]
                    ELSE Done(proc[p], Thrown("io"))]
    /\ UNCHANGED <<now, settings, dbAdapter, cache, files, db>>

ShouldRefresh_IgnoresSetting(authState) == authState.refreshToken # NoToken

\* lines 97-98: authState.refreshToken && getSetting("autoRefresh") === true
ShouldRefresh(authState) == authState.refreshToken # NoToken /\ AutoRefresh

\* lines 76-111, from the resolved retrieveData to the return or to the await
\* inside refreshAuthState -> saveAuthState; decryptData (line 82) is called
\* outside the try block, JSON.parse (line 88) inside it
LoadDecrypt(p) ==
    LET q == proc[p]
        k == q.key IN
    /\ q.pc = "retrieved"
    /\ IF ~IsSome(q.blob)
       THEN /\ proc' = [proc EXCEPT ![p] = Done(q, Null)]
            /\ cache' = cache
       ELSE \E o \in decryptData(Get(q.blob), EncryptionKey) :
              LET qd == [q EXCEPT !.nDecrypt = @ + 1] IN
              IF ~o.ok
              THEN /\ proc' = [proc EXCEPT ![p] = Done(qd, Thrown("decrypt"))]
                   /\ cache' = cache
              ELSE IF ~o.pt.json
              THEN /\ proc' = [proc EXCEPT ![p] = Done(qd, Null)]
                   /\ cache' = cache
              ELSE LET authState == Get(o.pt.val) IN
                   IF isValid(authState)
                   THEN /\ cache' = CachePut(cache, k, authState)
                        /\ proc' = [proc EXCEPT ![p] =
                                      Done([qd EXCEPT !.via = "storage"], Value(authState))]
                   ELSE IF ShouldRefresh(authState)
                   THEN /\ cache' = CachePut(cache, k, Refreshed(authState))
                        /\ \E iv \in IVs :
                             proc' = [proc EXCEPT ![p] =
                                        RefreshStart([qd EXCEPT !.via = "refresh"], authState, iv)]
                   ELSE /\ proc' = [proc EXCEPT ![p] = Done(qd, Null)]
                        /\ cache' = cache
    /\ UNCHANGED <<now, settings, dbAdapter, files, db>>

\* ------------------------------------------------------------------- Next
Next ==
    \/ Tick
    \/ \E k \in Keys : Tamper(k)
    \/ \E p \in Procs, k \in Keys, r \in InputRecords : SaveBegin(p, k, r)
    \/ \E p \in Procs : SaveStore(p)
    \/ \E p \in Procs : DbWriteDone(p)
    \/ \E p \in Procs, k \in Keys, r \in RefreshInputs : RefreshBegin(p, k, r)
    \/ \E p \in Procs, k \in Keys : ClearBegin(p, k)
    \/ \E p \in Procs, k \in Keys : LoadBegin(p, k)
    \/ \E p \in Procs : LoadDbFound(p)
    \/ \E p \in Procs : LoadDecrypt(p)

Spec == Init /\ [][Next]_vars

\* ------------------------------------------- one caller at a time (SpecSeq)
\* isValid(authState) called from outside, lines 148-150
Bool(b) == [tag |-> IF b THEN "true" ELSE "false", val |-> None, err |-> ""]

IsValidCall(p, authState) ==
    /\ Free(p)
    /\ proc' = [proc EXCEPT ![p] =
                  Done([Call("isValid", "") EXCEPT !.arg = Some(authState)],
                       Bool(isValid(authState)))]
    /\ UNCHANGED <<now, settings, dbAdapter, cache, files, db>>

\* the agent restarts: a new AuthStateManager starts with authCache = {} (line 28),
\* files and database rows stay
DropCache ==
    /\ \E k \in Keys : IsSome(cache[k])
    /\ cache' = [k \in Keys |-> None]
    /\ UNCHANGED <<now, settings, dbAdapter, files, db, proc>>

\* no call is in flight
Quiet == \A p \in Procs : Free(p)
\* a record with a refresh token that is expired at every instant of the
\* clock, so also at the moment it is saved
ExpiredRecord == AuthState("w1", "refresh-token", 0, 0)
SeqRecords == InputRecords \cup {ExpiredRecord}

\* calls that do not overlap, and nobody else touching the backend: "p1"
\* issues save, refresh and clear, "p2" issues load and isValid, so that
\* proc["p1"] is the last write call when a load settles
SeqNext ==
    \/ Tick
    \/ DropCache /\ Quiet
    \/ \E k \in Keys, r \in SeqRecords : Quiet /\ SaveBegin("p1", k, r)
    \/ \E k \in Keys, r \in RefreshInputs : Quiet /\ RefreshBegin("p1", k, r)
    \/ \E k \in Keys : Quiet /\ ClearBegin("p1", k)
    \/ \E k \in Keys : Quiet /\ LoadBegin("p2", k)
    \/ \E r \in SeqRecords : Quiet /\ IsValidCall("p2", r)
    \/ \E p \in Procs : SaveStore(p)
    \/ \E p \in Procs : DbWriteDone(p)
    \/ \E p \in Procs : LoadDbFound(p)
    \/ \E p \in Procs : LoadDecrypt(p)

SpecSeq == Init /\ [][SeqNext]_vars

\* ================================================================== claims
\* a call of loadAuthState by p starts in this step
LoadStarts(p) == Free(p) /\ proc'[p] # proc[p] /\ proc'[p].op = "load"
\* a call of p settles in this step
Settles(p) == proc[p].pc # "done" /\ proc'[p].pc = "done"
\* the envelope b opens under the configured key to the JSON text of a record
Opens(b) == b.kind = "env" /\ b.key = NormalizeKey(EncryptionKey) /\ b.pt.json

\* C1: when the cache holds a record for k with now < expiresAt,
\* loadAuthState(k) returns exactly that record in the same step, with no
\* backend retrieve, no decryption, no refresh and no backend or cache write.
C1_CachedValidServed ==
    [][\A p \in Procs :
         LET k == proc'[p].key IN
         (/\ LoadStarts(p)
          /\ IsSome(cache[k])
          /\ now < Get(cache[k]).expiresAt)
         => /\ proc'[p].pc = "done"
            /\ proc'[p].res = Value(Get(cache[k]))
            /\ proc'[p].nRetrieve = 0 /\ proc'[p].nDecrypt = 0
            /\ proc'[p].nStore = 0 /\ proc'[p].nRefresh = 0
            /\ files' = files /\ db' = db /\ cache' = cache]_vars

\* C1 witness: a load has been answered from the cache
C1_Witness ==
    \E p \in Procs :
        /\ proc[p].pc = "done" /\ proc[p].op = "load" /\ proc[p].via = "cache"
        /\ proc[p].res.tag = "value"

\* C2 (as claimed): a record returned by loadAuthState is not expired at the
\* moment the call returns, whichever path produced it.
C2_LoadNeverReturnsExpired ==
    [][\A p \in Procs :
         (/\ Settles(p)
          /\ proc'[p].op = "load"
          /\ proc'[p].res.tag = "value")
         => now' < Get(proc'[p].res.val).expiresAt]_vars

\* C3 (as claimed): a retrieved blob that cannot be decrypted, or that decrypts
\* to text that is no JSON, makes loadAuthState return null without throwing.
C3_UndecodableBlobYieldsNull ==
    [][\A p \in Procs :
         (/\ proc[p].op = "load" /\ proc[p].pc = "retrieved"
          /\ IsSome(proc[p].blob)
          /\ ~Opens(Get(proc[p].blob))
          /\ proc'[p] # proc[p])
         => proc'[p].pc = "done" /\ proc'[p].res = Null]_vars

\* C4 (as claimed): no call of loadAuthState ends in an exception, whatever
\* failed inside it.
C4_LoadNeverThrows ==
    \A p \in Procs :
        (proc[p].pc = "done" /\ proc[p].op = "load") => proc[p].res.tag # "error"

\* C5: when loadAuthState(k) missed the cache and the retrieved envelope opens
\* to a record that is still valid, the call returns that record and puts it
\* in the cache, so that the fast path of the next load(k) is open.
C5_ValidStoredIsCached ==
    [][\A p \in Procs :
         LET k == proc[p].key
             b == Get(proc[p].blob) IN
         (/\ proc[p].op = "load" /\ proc[p].pc = "retrieved"
          /\ IsSome(proc[p].blob)
          /\ Opens(b)
          /\ now < Get(b.pt.val).expiresAt
          /\ proc'[p] # proc[p])
         => /\ proc'[p].pc = "done"
            /\ proc'[p].res = Value(Get(b.pt.val))
            /\ cache'[k] = b.pt.val
            /\ now' < Get(cache'[k]).expiresAt
            /\ files' = files /\ db' = db]_vars

\* C5 witness: a load answered from the backend, its record now in the cache
C5_Witness ==
    \E p \in Procs :
        /\ proc[p].pc = "done" /\ proc[p].op = "load" /\ proc[p].via = "storage"
        /\ proc[p].res.tag = "value"
        /\ cache[proc[p].key] = proc[p].res.val

\* C6: when the record read from the backend is expired, carries a refresh
\* token and autoRefresh is true, loadAuthState calls refreshAuthState once
\* for that key and record, and returns what refreshAuthState returns: the
\* refreshed record, or null when the refresh failed.
C6_LoadReturnsRefreshResult ==
    [][\A p \in Procs :
         LET q == proc[p]
             b == Get(q.blob)
             r == Get(b.pt.val) IN
         /\ (/\ q.op = "load" /\ q.pc = "retrieved" /\ IsSome(q.blob)
             /\ Opens(b)
             /\ now >= r.expiresAt
             /\ r.refreshToken # NoToken
             /\ settings.autoRefresh = "true"
             /\ proc'[p] # q)
            => /\ proc'[p].pc = "store" /\ proc'[p].op = "load"
               /\ proc'[p].key = q.key
               /\ proc'[p].nRefresh = 1
               /\ IsSome(proc'[p].rec)
               /\ Get(proc'[p].rec).walletPublicKey = r.walletPublicKey
               /\ Get(proc'[p].rec).refreshToken = r.refreshToken
         /\ (/\ q.op = "load" /\ q.nRefresh = 1 /\ Settles(p))
            => /\ proc'[p].refreshRet.tag \in {"value", "null"}
               /\ proc'[p].res = proc'[p].refreshRet
               /\ proc'[p].refreshRet.tag = "value"
                    => proc'[p].refreshRet.val = q.rec
               /\ proc'[p].refreshRet.tag = "null" => proc'[p].storeErr # ""]_vars

\* C6 witness: one load has returned a refreshed record, another one null
\* after its refresh failed
C6_Witness ==
    \E p, q \in Procs :
        /\ proc[p].pc = "done" /\ proc[p].op = "load" /\ proc[p].nRefresh = 1
        /\ proc[p].res.tag = "value"
        /\ proc[q].pc = "done" /\ proc[q].op = "load" /\ proc[q].nRefresh = 1
        /\ proc[q].res = Null

\* a refresh by p starts in this step: the direct call refreshAuthState(k, R),
\* or the one loadAuthState makes for the record it decrypted
RefreshStarts(p) ==
    \/ Free(p) /\ proc'[p] # proc[p] /\ proc'[p].op = "refresh"
    \/ proc[p].op = "load" /\ proc[p].pc = "retrieved" /\ proc'[p].nRefresh = 1
RefreshArg(p) ==
    IF proc[p].op = "load" /\ proc[p].pc = "retrieved"
    THEN Get(Get(proc[p].blob).pt.val)
    ELSE Get(proc'[p].arg)
\* the stored blob is an envelope under the configured key of the JSON of r
HoldsRecord(stored, r) ==
    /\ IsSome(stored)
    /\ Get(stored).kind = "env"
    /\ Get(stored).key = NormalizeKey(EncryptionKey)
    /\ Get(stored).pt = [json |-> TRUE, val |-> Some(r)]

Backend(k) ==
    CASE StorageType = "encrypted-file" -> files[FilePath(k)]
      [] StorageType = "database" -> db[k]
      [] OTHER -> None

\* C8 (as claimed): when the backend write of a saveAuthState fails (called
\* directly or by refreshAuthState), the cache entry of that key is afterwards
\* not a record the backend does not hold.
C8_FailedWriteLeavesCacheCoherent ==
    [][\A p \in Procs :
         LET k == proc[p].key IN
         (/\ proc[p].op \in {"save", "refresh", "load"}
          /\ Settles(p)
          /\ proc'[p].storeErr # "")
         => \/ cache'[k] = None
            \/ HoldsRecord(Backend(k)', Get(cache'[k]))]_vars

Refreshing(p, k) ==
    /\ proc[p].op = "load" /\ proc[p].key = k
    /\ proc[p].nRefresh = 1 /\ proc[p].pc \in {"store", "dbwrite"}

\* C10 (as claimed): concurrent loadAuthState calls on one key never have two
\* refreshes in flight at the same time.
C10_OneRefreshInFlight ==
    \A k \in Keys : \A p, q \in Procs :
        (Refreshing(p, k) /\ Refreshing(q, k)) => p = q

\* ------------------------------------------------------ two session keys
\* two keys a caller may choose, calls on them interleaved; the clock stands
\* still, the expired record takes the loads through the refresh
Keys2 == {"solana-auth", "./solana-auth"}
KeyConfigs ==
    {Setting(st, Some(KeyA), Some(1), "true") : st \in {Unset, "database"}}

KeyRecords == {ExpiredRecord, AuthState("w2", NoToken, 0, 2000)}

InitKeys ==
    /\ now = 0
    /\ settings \in KeyConfigs
    /\ dbAdapter = TRUE
    /\ cache = [k \in Keys2 |-> None]
    /\ files = [f \in {FilePath(k) : k \in Keys2} |-> None]
    /\ db = [k \in Keys2 |-> None]
    /\ proc = [p \in Procs |-> Idle]

KeysNext ==
    \/ \E p \in Procs, k \in Keys2, r \in KeyRecords : SaveBegin(p, k, r)
    \/ \E p \in Procs : SaveStore(p)
    \/ \E p \in Procs : DbWriteDone(p)
    \/ \E p \in Procs, k \in Keys2, r \in RefreshInputs : RefreshBegin(p, k, r)
    \/ \E p \in Procs, k \in Keys2 : ClearBegin(p, k)
    \/ \E p \in Procs, k \in Keys2 : LoadBegin(p, k)
    \/ \E p \in Procs : LoadDbFound(p)
    \/ \E p \in Procs : LoadDecrypt(p)

SpecKeys == InitKeys /\ [][KeysNext]_vars

\* ---------------------------------------------------- C11 .. C20
\* p starts a call of the method op in this step
Starts(p, opName) == Free(p) /\ proc'[p] # proc[p] /\ proc'[p].op = opName
\* a call of opName by p returns in this step
Returns(p, opName) ==
    proc'[p] # proc[p] /\ proc'[p].pc = "done" /\ proc'[p].op = opName
\* the last write call has settled, and it was a successful call of opName on k
LastWrite(opName, k) ==
    /\ proc["p1"].pc = "done" /\ proc["p1"].op = opName
    /\ proc["p1"].key = k /\ proc["p1"].res = Void
\* the backend call of a load failed (file read or findOne)
ReadFailed(r) == r.tag = "error" /\ r.err = "io"
\* neither the cache nor the configured backend holds anything for k
Empty(k) == cache[k] = None /\ Backend(k) = None

\* C11: saveAuthState(k, R) overwrites whatever the cache held for k in its
\* first step; when it has completed successfully the cache entry of k is R
\* and the file or database entry of k is the envelope of the JSON of R,
\* whatever was stored before (the memory backend stores nothing).  Calls do
\* not overlap.
C11_SaveOverwrites ==
    [][\A p \in Procs :
         LET k == proc'[p].key IN
         /\ Starts(p, "save") => cache'[k] = proc'[p].arg
         /\ (Returns(p, "save") /\ proc'[p].res = Void)
            => /\ cache'[k] = proc'[p].arg
               /\ proc'[p].nStore = 1
               /\ StorageType = "encrypted-file"
                    => HoldsRecord(files'[FilePath(k)], Get(proc'[p].arg)) /\ db' = db
               /\ StorageType = "database"
                    => HoldsRecord(db'[k], Get(proc'[p].arg)) /\ files' = files
               /\ StorageType = "memory" => files' = files /\ db' = db]_vars

\* C11 witness: a save has completed, cache and backend hold its record
C11_Witness ==
    \E k \in Keys :
        /\ LastWrite("save", k)
        /\ cache[k] = proc["p1"].arg
        /\ HoldsRecord(Backend(k), Get(proc["p1"].arg))

\* C12 (as claimed): for every backend, a load that follows a successful
\* saveAuthState(k, R) of a still valid R returns R, also when the cache was
\* dropped in between.
C12_SaveThenLoadEveryBackend ==
    [][\A k \in Keys :
         (/\ Returns("p2", "load") /\ proc'["p2"].key = k
          /\ LastWrite("save", k)
          /\ now' < Get(proc["p1"].arg).expiresAt
          /\ ~ReadFailed(proc'["p2"].res))
         => proc'["p2"].res = Value(Get(proc["p1"].arg))]_vars

\* C12 (amended): with the file and the database backend, a load that follows
\* a successful saveAuthState(k, R) of a still valid R returns a record equal
\* to R, also when the cache was dropped in between; with the memory backend
\* it returns R only while the cache still holds it, and null after the cache
\* was dropped.
C12_SaveThenLoadPersistent ==
    [][\A k \in Keys :
         (/\ Returns("p2", "load") /\ proc'["p2"].key = k
          /\ LastWrite("save", k)
          /\ now' < Get(proc["p1"].arg).expiresAt
          /\ ~ReadFailed(proc'["p2"].res))
         => IF StorageType = "memory" /\ cache[k] = None
            THEN proc'["p2"].res = Null
            ELSE proc'["p2"].res = Value(Get(proc["p1"].arg))]_vars

\* C12 witness: after a save the cache was dropped and a load has read the
\* saved record back from the backend
C12_Witness ==
    \E k \in Keys :
        /\ LastWrite("save", k)
        /\ proc["p2"].pc = "done" /\ proc["p2"].op = "load" /\ proc["p2"].key = k
        /\ proc["p2"].via = "storage"
        /\ proc["p2"].res = Value(Get(proc["p1"].arg))

\* C13: when clearAuthState(k) has completed, the cache entry and the backend
\* entry of k are gone, and every load of k that follows, up to the next write
\* call, returns null and leaves both empty.  Calls do not overlap.
C13_ClearedStaysAbsent ==
    [][\A k \in Keys :
         /\ (Returns("p1", "clear") /\ proc'["p1"].key = k
             /\ proc'["p1"].res = Void)
            => cache'[k] = None /\ files'[FilePath(k)] = None /\ db'[k] = None
         /\ (/\ Returns("p2", "load") /\ proc'["p2"].key = k
             /\ LastWrite("clear", k)
             /\ ~ReadFailed(proc'["p2"].res))
            => /\ proc'["p2"].res = Null
               /\ cache'[k] = None /\ files'[FilePath(k)] = None /\ db'[k] = None]_vars

\* C13 witness: a load after a completed clear has returned null
C13_Witness ==
    \E k \in Keys :
        /\ LastWrite("clear", k)
        /\ proc["p1"].nStore = 1
        /\ proc["p2"].pc = "done" /\ proc["p2"].op = "load" /\ proc["p2"].key = k
        /\ proc["p2"].nRetrieve = 1
        /\ proc["p2"].res = Null

\* C14: with the file, the memory or the database backend (adapter present),
\* clearAuthState on a key that has neither a cache entry nor a backend entry
\* throws nothing for the absence and changes nothing (only a failing
\* database call can make it throw); a clear that follows a completed clear
\* finds the key empty, so clear; clear ends in the state of one clear.
C14_ClearIdempotent ==
    [][\A p \in Procs :
         LET k == proc'[p].key IN
         /\ (/\ Starts(p, "clear")
             /\ StorageType \in {"encrypted-file", "memory"}
                  \/ (StorageType = "database" /\ dbAdapter)
             /\ Empty(k))
            => /\ cache' = cache /\ files' = files /\ db' = db
               /\ IF StorageType = "database"
                  THEN proc'[p].pc = "dbwrite"
                  ELSE proc'[p].pc = "done" /\ proc'[p].res = Void
         /\ (proc[p].op = "clear" /\ Settles(p) /\ proc[p].pc = "dbwrite"
             /\ db[proc[p].key] = None)
            => /\ cache' = cache /\ files' = files /\ db' = db
               /\ proc'[p].res \in {Void, Thrown("io")}
         /\ (Starts(p, "clear") /\ p = "p1" /\ LastWrite("clear", k))
            => Empty(k)]_vars

\* C14 witness: a clear has completed on a key whose file did not exist
C14_Witness ==
    \E k \in Keys :
        /\ StorageType = "encrypted-file"
        /\ LastWrite("clear", k)
        /\ proc["p1"].nStore = 1 /\ proc["p1"].nUnlink = 0
        /\ Empty(k)

\* C15: when the record read from the backend is expired and has no refresh
\* token, or is expired while autoRefresh is not true, loadAuthState returns
\* null in that step, calls neither refreshAuthState nor storeData, and
\* leaves cache, files and database as they were.
C15_ExpiredNoRefreshIsNull ==
    [][\A p \in Procs :
         LET q == proc[p]
             b == Get(q.blob)
             r == Get(b.pt.val) IN
         (/\ q.op = "load" /\ q.pc = "retrieved" /\ IsSome(q.blob)
          /\ Opens(b)
          /\ now >= r.expiresAt
          /\ r.refreshToken = NoToken \/ settings.autoRefresh # "true"
          /\ proc'[p] # q)
         => /\ proc'[p].pc = "done" /\ proc'[p].res = Null
            /\ proc'[p].nRefresh = 0 /\ proc'[p].nStore = 0
            /\ cache' = cache /\ files' = files /\ db' = db]_vars

\* C15 witness: a load has decrypted the stored record, found it expired and
\* not refreshable, and returned null without a refresh
C15_Witness ==
    \E p \in Procs :
        LET b == Get(Backend(proc[p].key)) IN
        /\ proc[p].pc = "done" /\ proc[p].op = "load" /\ proc[p].res = Null
        /\ proc[p].nDecrypt = 1 /\ proc[p].nRefresh = 0
        /\ IsSome(Backend(proc[p].key)) /\ Opens(b)
        /\ now >= Get(b.pt.val).expiresAt
        /\ ~ShouldRefresh(Get(b.pt.val))

\* C16 (as claimed): with a backend that persists (file, database) and
\* autoRefresh true, a load that follows the successful save of a record R
\* that was already expired and carries a refresh token returns, unless a
\* backend call fails, a record with expiresAt > now and the walletPublicKey,
\* permissions and network of R.
C16_ExpiredWithTokenIsRefreshed ==
    [][\A k \in Keys :
         LET R == Get(proc["p1"].arg)
             r == proc'["p2"].res IN
         (/\ Returns("p2", "load") /\ proc'["p2"].key = k
          /\ LastWrite("save", k)
          /\ StorageType # "memory"
          /\ settings.autoRefresh = "true"
          /\ R.refreshToken # NoToken /\ R.expiresAt <= 0
          /\ ~ReadFailed(r) /\ proc'["p2"].storeErr = "")
         => /\ r.tag = "value"
            /\ now' < Get(r.val).expiresAt
            /\ Get(r.val).walletPublicKey = R.walletPublicKey
            /\ Get(r.val).permissions = R.permissions
            /\ Get(r.val).network = R.network]_vars

\* C17: loadAuthState on a key that has no cache entry and no backend entry
\* returns null and changes nothing, with the file backend, the memory
\* backend and the database backend with an adapter; only a failing findOne
\* of the adapter makes it throw.
C17_AbsentKeyLoadsNull ==
    [][\A p \in Procs :
         LET k == proc'[p].key IN
         /\ (LoadStarts(p) /\ Empty(k)
             /\ StorageType \in {"encrypted-file", "memory"})
            => proc'[p].pc = "retrieved" /\ proc'[p].blob = None
         /\ (LoadStarts(p) /\ Empty(k) /\ StorageType = "database" /\ dbAdapter)
            => proc'[p].pc = "dbfind"
         /\ (proc[p].pc = "dbfind" /\ db[k] = None /\ proc'[p] # proc[p])
            => \/ proc'[p].pc = "retrieved" /\ proc'[p].blob = None
               \/ proc'[p].pc = "done" /\ proc'[p].res = Thrown("io")
         /\ (/\ proc[p].op = "load" /\ proc[p].pc = "retrieved"
             /\ proc[p].blob = None /\ proc'[p] # proc[p])
            => /\ proc'[p].pc = "done" /\ proc'[p].res = Null
               /\ proc'[p].nDecrypt = 0 /\ proc'[p].nStore = 0
               /\ cache' = cache /\ files' = files /\ db' = db]_vars

\* C17 witness: a load has found neither a cache entry nor a blob and has
\* returned null, and the key is still empty
C17_Witness ==
    \E p \in Procs :
        /\ proc[p].pc = "done" /\ proc[p].op = "load" /\ proc[p].res = Null
        /\ proc[p].nRetrieve = 1 /\ proc[p].nDecrypt = 0
        /\ Empty(proc[p].key)

\* C18: isValid(R) returns true exactly when now < R.expiresAt, so false at
\* now = R.expiresAt; it returns in one step, whatever the cache holds, and
\* changes neither the cache nor the files nor the database.
C18_IsValidStrictAndPure ==
    [][\A p \in Procs :
         Starts(p, "isValid")
         => LET R == Get(proc'[p].arg) IN
            /\ proc'[p].pc = "done"
            /\ proc'[p].res.tag \in {"true", "false"}
            /\ proc'[p].res.tag = "true" <=> now < R.expiresAt
            /\ now = R.expiresAt => proc'[p].res.tag = "false"
            /\ cache' = cache /\ files' = files /\ db' = db]_vars

\* C18 witness: isValid has answered false for a record at the very instant
\* of its expiry, with nothing in the cache
C18_Witness ==
    /\ proc["p2"].pc = "done" /\ proc["p2"].op = "isValid"
    /\ proc["p2"].res.tag = "false"
    /\ Get(proc["p2"].arg).expiresAt = now /\ now > 0
    /\ \A k \in Keys : cache[k] = None

\* C20 (as claimed): with an unrecognised storage type no call gets as far as
\* a storage access or a cache write: no call is ever past its start and the
\* cache stays empty.
C20_UnsupportedRejectedAtInit ==
    StorageType \notin {"encrypted-file", "database", "memory"}
    => /\ \A p \in Procs : proc[p].pc = "idle"
       /\ \A k \in Keys : cache[k] = None

\* the step is a step of a call on key b: its start, or a later step of it
CallStep(b) ==
    \E p \in Procs :
        \/ \E r \in KeyRecords : SaveBegin(p, b, r)
        \/ \E r \in RefreshInputs : RefreshBegin(p, b, r)
        \/ ClearBegin(p, b)
        \/ LoadBegin(p, b)
        \/ /\ proc[p].key = b
           /\ SaveStore(p) \/ DbWriteDone(p) \/ LoadDbFound(p) \/ LoadDecrypt(p)

\* C19 (as claimed): the cache entry, the file and the database row of a key
\* b change only in steps of calls on b itself: no save, load, refresh or
\* clear on another key touches them, under any interleaving.
C19_KeysIndependent ==
    [][\A b \in Keys2 :
         (\/ cache'[b] # cache[b]
          \/ files'[FilePath(b)] # files[FilePath(b)]
          \/ db'[b] # db[b])
         => CallStep(b)]_vars

\* ---------------------------------------------------- C21 .. C30
\* C21 (as claimed): with the database backend and no database adapter,
\* every saveAuthState and every loadAuthState ends in the error "No database
\* adapter available" thrown to its caller.
C21_NoAdapterAlwaysFails ==
    [][\A p \in Procs :
         (/\ StorageType = "database" /\ ~dbAdapter
          /\ Returns(p, "save") \/ Returns(p, "load"))
         => proc'[p].res = Thrown("no-adapter")]_vars

\* C22: with the memory backend storeData writes nothing and retrieveData
\* returns null: files and database stay empty, a load returns the cached
\* record when the cache holds a valid one at its start, and otherwise gets
\* no blob and returns null.
C22_MemoryPersistsNothing ==
    [][settings.authStateStorageType = "memory"
       => /\ \A k \in Keys : files'[FilePath(k)] = None /\ db'[k] = None
          /\ \A p \in Procs :
               LET k == proc'[p].key IN
               /\ LoadStarts(p)
                  => IF CacheHit(k)
                     THEN /\ proc'[p].pc = "done"
                          /\ proc'[p].res = Value(Get(cache[k]))
                     ELSE /\ proc'[p].pc = "retrieved"
                          /\ proc'[p].blob = None
               /\ (proc[p].op = "load" /\ proc[p].pc = "retrieved"
                   /\ proc'[p] # proc[p])
                  => proc'[p].pc = "done" /\ proc'[p].res = Null]_vars

\* C22 witness: with the memory backend a save has completed, and a load
\* that found no valid cache entry has returned null
C22_Witness ==
    /\ settings.authStateStorageType = "memory"
    /\ \E p, q \in Procs :
         /\ proc[p].pc = "done" /\ proc[p].op = "load" /\ proc[p].res = Null
         /\ proc[p].nRetrieve = 1
         /\ proc[q].pc = "done" /\ proc[q].op = "save" /\ proc[q].res = Void
         /\ proc[q].key = proc[p].key

\* the envelopes encryptData can produce for the record a call has passed to
\* saveAuthState
EnvelopesOf(q) ==
    {Some(encryptData(JSONStringify(Get(q.rec)), EncryptionKey, iv)) : iv \in IVs}

\* C23: what a call hands to storeData is the envelope encryptData made of
\* the JSON of the record passed to saveAuthState, never the record itself;
\* and whenever a step of a call changes the backend entry of k, it is a call
\* on k that either is a clearAuthState and leaves the entry absent, or is
\* inside saveAuthState and leaves such an envelope of its record.
C23_EncryptedAtRest ==
    [][/\ \A p \in Procs :
            (proc'[p].pc \in {"store", "dbwrite"} /\ proc'[p].op # "clear")
            => /\ IsSome(proc'[p].rec)
               /\ proc'[p].out \in EnvelopesOf(proc'[p])
               /\ Get(proc'[p].out).kind = "env"
       /\ \A k \in Keys :
            (Backend(k)' # Backend(k) /\ proc' # proc)
            => \E p \in Procs :
                 /\ proc'[p] # proc[p] /\ proc'[p].key = k
                 /\ IF Backend(k)' = None
                    THEN proc'[p].op = "clear"
                    ELSE /\ proc'[p].op \in {"save", "refresh", "load"}
                         /\ proc[p].pc \in {"store", "dbwrite"}
                         /\ Backend(k)' \in EnvelopesOf(proc[p])]_vars

\* C23 witness: the backend holds the envelope written by the save inside a
\* refreshing load, under the configured key
C23_Witness ==
    \E p \in Procs :
        LET k == proc[p].key IN
        /\ proc[p].pc = "done" /\ proc[p].op = "load" /\ proc[p].via = "refresh"
        /\ proc[p].res.tag = "value"
        /\ IsSome(Backend(k))
        /\ Get(Backend(k)).kind = "env"
        /\ Get(Backend(k)).key = NormalizeKey(EncryptionKey)
        /\ Get(Backend(k)).pt = JSONStringify(Get(proc[p].res.val))

\* C24 (as claimed): with the autoRefresh setting not configured, a load that
\* reads an expired record carrying a refresh token starts refreshAuthState
\* for it, as it does when autoRefresh is true.
C24_AutoRefreshDefaultsOn ==
    [][\A p \in Procs :
         LET q == proc[p]
             b == Get(q.blob)
             r == Get(b.pt.val) IN
         (/\ q.op = "load" /\ q.pc = "retrieved" /\ IsSome(q.blob)
          /\ Opens(b)
          /\ now >= r.expiresAt
          /\ r.refreshToken # NoToken
          /\ settings.autoRefresh = Unset
          /\ proc'[p] # q)
         => /\ proc'[p].nRefresh = 1
            /\ proc'[p].pc = "store"
            /\ IsSome(proc'[p].rec)
            /\ now < Get(proc'[p].rec).expiresAt]_vars

\* ------------------------------------------- settings changed between calls
\* the configuration the manager is initialised under
InitialConfig == Setting(Unset, Some(KeyA), Some(1), "true")
SettingValues ==
    [authStateStorageType |-> {Unset, "database"},
     ENCRYPTION_KEY |-> {Some(KeyA), Some(KeyB)}]

InitCfg ==
    /\ now = 0
    /\ settings = InitialConfig
    /\ dbAdapter = TRUE
    /\ cache = [k \in Keys |-> None]
    /\ files = [f \in {FilePath(k) : k \in Keys} |-> None]
    /\ db = [k \in Keys |-> None]
    /\ proc = [p \in Procs |-> Idle]

\* the runtime's settings are changed while no call is in flight; getSetting
\* returns the current value
SetSetting(name, value) ==
    /\ Quiet
    /\ settings[name] # value
    /\ settings' = [settings EXCEPT ![name] = value]
    /\ UNCHANGED <<now, dbAdapter, cache, files, db, proc>>

CfgNext ==
    \/ \E name \in DOMAIN SettingValues :
         \E value \in SettingValues[name] : SetSetting(name, value)
    \/ \E k \in Keys, r \in SeqRecords : Quiet /\ SaveBegin("p1", k, r)
    \/ \E k \in Keys : Quiet /\ ClearBegin("p1", k)
    \/ \E k \in Keys : Quiet /\ LoadBegin("p2", k)
    \/ \E p \in Procs : SaveStore(p)
    \/ \E p \in Procs : DbWriteDone(p)
    \/ \E p \in Procs : LoadDbFound(p)
    \/ \E p \in Procs : LoadDecrypt(p)

SpecCfg == InitCfg /\ [][CfgNext]_vars

\* C25 (as claimed): whatever the settings are changed to after
\* initialisation, a save that completes has written the file the initial
\* configuration names, under the initial key, and a load that follows the
\* successful save of a record R finds it: it returns R, or the refreshed R
\* when R was expired.
C25_SettingsFixedAtInit ==
    [][\A k \in Keys :
         LET R == Get(proc'["p1"].arg)
             r == proc'["p2"].res IN
         /\ (Returns("p1", "save") /\ proc'["p1"].key = k
             /\ proc'["p1"].res = Void)
            => \E iv \in IVs :
                 files'[FilePath(k)] =
                    Some(encryptData(JSONStringify(R),
                                     Get(InitialConfig.ENCRYPTION_KEY), iv))
         /\ (/\ Returns("p2", "load") /\ proc'["p2"].key = k
             /\ LastWrite("save", k)
             /\ ~ReadFailed(r) /\ proc'["p2"].storeErr = "")
            => /\ r.tag = "value"
               /\ Get(r.val).walletPublicKey = R.walletPublicKey]_vars

\* ------------------------------------------------------- action handlers
\* one handler run at a time (Handler), its manager calls in the slot Manager;
\* sessions saved by other callers come in through ExternalSave
Handler == "p1"
Manager == "p2"
ServiceKey == "solana-auth"
Nonces == {1, 2}
AuthConfig == Setting(Unset, Some(KeyA), Some(1), "true")

InitAuth ==
    /\ now = 0
    /\ settings = AuthConfig
    /\ dbAdapter = TRUE
    /\ cache = [k \in Keys |-> None]
    /\ files = [f \in {FilePath(k) : k \in Keys} |-> None]
    /\ db = [k \in Keys |-> None]
    /\ proc = [p \in Procs |-> Idle]

Run(name) == [Idle EXCEPT !.pc = "h-load", !.op = name, !.key = ServiceKey]
Return(h, b) ==
    [h EXCEPT !.pc = "done", !.act.ret = IF b THEN "true" ELSE "false"]

\* WalletAdapter
connectWallet == "simulated-public-key"
generateAuthMessage(publicKey, nonce) ==
    [nonce |-> nonce, timestamp |-> now, publicKey |-> publicKey]
requestSignature(publicKey, message) == "simulated-signature"

\* a handler is entered
HandlerBegin(name) ==
    /\ Free(Handler) /\ Free(Manager)
    /\ proc' = [proc EXCEPT ![Handler] = Run(name), ![Manager] = Idle]
    /\ UNCHANGED <<now, settings, dbAdapter, cache, files, db>>

\* authenticate.ts line 32, signTransaction.ts line 29:
\* await authStateManager.loadAuthState(serviceKey)
HandlerLoad ==
    /\ proc[Handler].pc = "h-load" /\ proc[Manager].pc = "idle"
    /\ LoadBegin(Manager, ServiceKey)

SessionUsable_Never(res) == FALSE

\* authenticate.ts line 34: existingAuth && authStateManager.isValid(existingAuth)
SessionUsable(res) == res.tag = "value" /\ isValid(Get(res.val))

\* lines 32-55: the load has settled; an exception lands in the catch block
AuthAfterLoad ==
    LET h == proc[Handler]
        m == proc[Manager] IN
    /\ h.op = "authenticate" /\ h.pc = "h-load"
    /\ m.pc = "done" /\ m.op = "load"
    /\ proc' = [proc EXCEPT ![Handler] =
                  IF m.res.tag = "error" THEN Return(h, FALSE)
                  ELSE IF SessionUsable(m.res) THEN Return(h, TRUE)
                  ELSE [h EXCEPT !.pc = "h-connect"]]
    /\ UNCHANGED <<now, settings, dbAdapter, cache, files, db>>

\* line 57: the wallet connects, or the attempt throws
AuthConnect ==
    LET h == proc[Handler] IN
    /\ h.op = "authenticate" /\ h.pc = "h-connect"
    /\ \E ok \in BOOLEAN :
         proc' = [proc EXCEPT ![Handler] =
                    IF ok
                    THEN [h EXCEPT !.pc = "h-challenge",
                                   !.act.wallet = Some(connectWallet),
                                   !.act.nConnect = @ + 1]
                    ELSE Return([h EXCEPT !.act.nConnect = @ + 1], FALSE)]
    /\ UNCHANGED <<now, settings, dbAdapter, cache, files, db>>

\* line 60
AuthChallenge ==
    LET h == proc[Handler] IN
    /\ h.op = "authenticate" /\ h.pc = "h-challenge"
    /\ \E nonce \in Nonces :
         proc' = [proc EXCEPT ![Handler] =
                    [h EXCEPT !.pc = "h-sign",
                              !.act.challenge =
                                  Some(generateAuthMessage(Get(h.act.wallet), nonce)),
                              !.act.nChallenge = @ + 1]]
    /\ UNCHANGED <<now, settings, dbAdapter, cache, files, db>>

\* line 71: the wallet signs, or the request throws
AuthSign ==
    LET h == proc[Handler]
        a == h.act IN
    /\ h.op = "authenticate" /\ h.pc = "h-sign"
    /\ \E ok \in BOOLEAN :
         proc' = [proc EXCEPT ![Handler] =
                    IF ok
                    THEN [h EXCEPT !.pc = "h-verify",
                                   !.act.signedMsg = a.challenge,
                                   !.act.signature =
                                       Some(requestSignature(Get(a.wallet),
                                                             Get(a.challenge))),
                                   !.act.nSign = @ + 1]
                    ELSE Return([h EXCEPT !.act.signedMsg = a.challenge,
                                          !.act.nSign = @ + 1], FALSE)]
    /\ UNCHANGED <<now, settings, dbAdapter, cache, files, db>>

\* the repository holds two copies of the authenticate handler: authenticate.ts
\* line 89 takes the lifetime of the session from the setting authStateTTL,
\* the copy in the plugin (part_003 line 90) has 24 hours written in
HandlerTTLs == {TTL, 24 * 60 * 60 * 1000}

AfterVerify_IgnoresResult(h, isValidSignature, ttl) ==
    [h EXCEPT !.pc = "h-save",
              !.act.authState =
                  Some([AuthState(Get(h.act.wallet), NoToken, now, now + ttl)
                           EXCEPT !.signature = Get(h.act.signature)])]

\* lines 76-97: a rejected signature ends the run with false; otherwise the
\* record is built from the wallet, the signature, the clock and the TTL
AfterVerify(h, isValidSignature, ttl) ==
    IF ~isValidSignature
    THEN Return(h, FALSE)
    ELSE [h EXCEPT !.pc = "h-save",
                   !.act.authState =
                       Some([AuthState(Get(h.act.wallet), NoToken, now, now + ttl)
                                EXCEPT !.signature = Get(h.act.signature)])]

\* line 74: verifySignature(wallet.publicKey, authMessage, signature); the
\* adapter registered with the runtime answers
AuthVerify ==
    LET h == proc[Handler]
        a == h.act IN
    /\ h.op = "authenticate" /\ h.pc = "h-verify"
    /\ \E isValidSignature \in BOOLEAN, ttl \in HandlerTTLs :
         proc' = [proc EXCEPT ![Handler] =
                    AfterVerify([h EXCEPT !.act.verified =
                                    Some([publicKey |-> Get(a.wallet),
                                          message |-> Get(a.challenge),
                                          signature |-> Get(a.signature),
                                          result |-> isValidSignature])],
                                isValidSignature, ttl)]
    /\ UNCHANGED <<now, settings, dbAdapter, cache, files, db>>

\* line 99: await authStateManager.saveAuthState(serviceKey, authState)
HandlerSave ==
    /\ proc[Handler].pc = "h-save" /\ proc[Manager].op = "load"
    /\ SaveBegin(Manager, ServiceKey, Get(proc[Handler].act.authState))

\* lines 99-122: the save has settled, normally or with an exception
AuthAfterSave ==
    LET h == proc[Handler]
        m == proc[Manager] IN
    /\ h.op = "authenticate" /\ h.pc = "h-save"
    /\ m.pc = "done" /\ m.op = "save"
    /\ proc' = [proc EXCEPT ![Handler] = Return(h, m.res = Void)]
    /\ UNCHANGED <<now, settings, dbAdapter, cache, files, db>>

NeedsAuth_IgnoresExpiry(res) == res.tag # "value"

\* signTransaction.ts line 31: !authState || !authStateManager.isValid(authState)
NeedsAuth(res) == res.tag # "value" \/ ~isValid(Get(res.val))

\* signTransaction.ts lines 29-40
SignAfterLoad ==
    LET h == proc[Handler]
        m == proc[Manager] IN
    /\ h.op = "signTransaction" /\ h.pc = "h-load"
    /\ m.pc = "done" /\ m.op = "load"
    /\ proc' = [proc EXCEPT ![Handler] =
                  IF m.res.tag = "error" \/ NeedsAuth(m.res)
                  THEN Return(h, FALSE)
                  ELSE [h EXCEPT !.pc = "h-sign",
                                 !.act.wallet =
                                     Some(Get(m.res.val).walletPublicKey)]]
    /\ UNCHANGED <<now, settings, dbAdapter, cache, files, db>>

\* signTransaction.ts lines 55-68: the wallet is asked to sign the transaction
SignRequest ==
    LET h == proc[Handler] IN
    /\ h.op = "signTransaction" /\ h.pc = "h-sign"
    /\ \E ok \in BOOLEAN :
         proc' = [proc EXCEPT ![Handler] =
                    Return([h EXCEPT !.act.nSign = @ + 1], ok)]
    /\ UNCHANGED <<now, settings, dbAdapter, cache, files, db>>

\* a session is saved by another caller of the manager
ExternalSave(r) ==
    /\ Free(Handler) /\ Free(Manager)
    /\ SaveBegin(Manager, ServiceKey, r)

AuthNext ==
    \/ Tick
    \/ \E name \in {"authenticate", "signTransaction"} : HandlerBegin(name)
    \/ HandlerLoad
    \/ AuthAfterLoad
    \/ AuthConnect
    \/ AuthChallenge
    \/ AuthSign
    \/ AuthVerify
    \/ HandlerSave
    \/ AuthAfterSave
    \/ SignAfterLoad
    \/ SignRequest
    \/ \E r \in InputRecords : ExternalSave(r)
    \/ SaveStore(Manager)
    \/ LoadDecrypt(Manager)

SpecAuth == InitAuth /\ [][AuthNext]_vars

\* a step of the authenticate handler, of the sign-transaction handler
AuthStep == proc[Handler].op = "authenticate" /\ ~Free(Handler)
SignTxStep == proc[Handler].op = "signTransaction" /\ ~Free(Handler)
Stored == <<cache, files, db>>

\* C26: in a run of the authenticate handler the only steps that change the
\* cache or the backend are those of its load and of its saveAuthState; the
\* save starts only when verifySignature has answered true for this run's
\* wallet, this run's challenge and the signature requested for that
\* challenge, and it saves the record built from them; when verifySignature
\* answers false the handler returns false in that step and cache, files and
\* database are as before.
C26_SaveOnlyAfterVerified ==
    [][AuthStep =>
         LET h == proc[Handler]
             a == h.act IN
         /\ Stored' # Stored => h.pc \in {"h-load", "h-save"}
         /\ (h.pc = "h-save" /\ proc'[Manager].op = "save")
            => /\ IsSome(a.verified)
               /\ Get(a.verified).result = TRUE
               /\ Get(a.verified).publicKey = Get(a.wallet)
               /\ Get(a.verified).message = Get(a.challenge)
               /\ Get(a.verified).signature = Get(a.signature)
               /\ a.signedMsg = a.challenge
               /\ a.nChallenge = 1 /\ a.nSign = 1
               /\ proc'[Manager].arg = a.authState
               /\ Get(a.authState).walletPublicKey = Get(a.wallet)
               /\ Get(a.authState).signature = Get(a.signature)
         /\ (/\ h.pc = "h-verify" /\ proc'[Handler] # h
             /\ ~Get(proc'[Handler].act.verified).result)
            => /\ proc'[Handler].pc = "done"
               /\ proc'[Handler].act.ret = "false"
               /\ proc'[Handler].act.authState = None
               /\ Stored' = Stored]_vars

\* C26 witness: a run has saved the session after a verified signature and
\* returned true
C26_Witness ==
    LET h == proc[Handler] IN
    /\ h.op = "authenticate" /\ h.pc = "done" /\ h.act.ret = "true"
    /\ IsSome(h.act.verified) /\ Get(h.act.verified).result
    /\ proc[Manager].op = "save" /\ proc[Manager].res = Void
    /\ cache[ServiceKey] = h.act.authState

C28_SignOnlyWithValidSession ==
    [][SignTxStep =>
         LET h == proc[Handler]
             m == proc[Manager] IN
         /\ (h.pc = "h-load" /\ proc'[Handler] # h)
            => IF m.res.tag = "value" /\ now < Get(m.res.val).expiresAt
               THEN /\ proc'[Handler].pc = "h-sign"
                    /\ proc'[Handler].act.wallet =
                          Some(Get(m.res.val).walletPublicKey)
               ELSE /\ proc'[Handler].pc = "done"
                    /\ proc'[Handler].act = [NoAct EXCEPT !.ret = "false"]
         /\ proc'[Handler].act.nSign # h.act.nSign
            => /\ h.pc = "h-sign"
               /\ m.op = "load" /\ m.res.tag = "value"
               /\ h.act.wallet = Some(Get(m.res.val).walletPublicKey)
         /\ Stored' # Stored => h.pc = "h-load"]_vars

\* C28 witness: a run has returned false without a signature request after
\* its load returned no usable session
C28_Witness ==
    /\ proc[Handler].op = "signTransaction" /\ proc[Handler].pc = "done"
    /\ proc[Handler].act.ret = "false" /\ proc[Handler].act.nSign = 0
    /\ proc[Manager].op = "load" /\ proc[Manager].pc = "done"
    /\ proc[Manager].res = Null
    /\ proc[Manager].nDecrypt = 1

\* ------------------------------------------------------------ the cipher
\* Buffer.from(string): the UTF-8 bytes of the characters (code points below
\* 2048 suffice for the keys of the model)
RECURSIVE Utf8(_)
Utf8(chars) ==
    IF chars = << >> THEN << >>
    ELSE LET c == Head(chars) IN
         (IF c < 128 THEN <<c>> ELSE <<192 + (c \div 64), 128 + (c % 64)>>)
         \o Utf8(Tail(chars))

\* part_000 lines 11, 17 and 35, 44: the key buffer handed to createCipheriv /
\* createDecipheriv, which throw unless it has exactly 32 bytes
KeyBuffer(key) == Utf8(NormalizeKey(key))
CipherAccepts(key) == Len(KeyBuffer(key)) = KeyBytes

\* "A" and "A " pad to the same key; a key of 33 characters and its first 32
\* truncate to the same key; the last key is the one character U+00E9
KeyAPadded == KeyA \o <<PadChar>>
Key33 == [i \in 1..(KeyBytes + 1) |-> IF i <= KeyBytes THEN 67 ELSE 68]
Key32 == SubSeq(Key33, 1, KeyBytes)
KeyNonAscii == <<233>>
CipherKeys == {KeyA, KeyAPadded, KeyB, Key33, Key32, KeyNonAscii}
Payloads == {JSONStringify(r) : r \in SeqRecords}

Text(pt) == [tag |-> "text", val |-> Some(pt), err |-> ""]

InitCipher ==
    /\ now = 0
    /\ settings \in {Setting(Unset, Some(K), Some(1), "true") : K \in CipherKeys}
    /\ dbAdapter = TRUE
    /\ cache = [k \in Keys |-> None]
    /\ files = [f \in {FilePath(k) : k \in Keys} |-> None]
    /\ db = [k \in Keys |-> None]
    /\ proc = [p \in Procs |-> Idle]

\* the caller goes on with another key
UseKey(K) == SetSetting("ENCRYPTION_KEY", Some(K))

\* encryptData(data, key) under the configured key
EncryptCall(p, data) ==
    /\ Free(p)
    /\ \E iv \in IVs :
         proc' = [proc EXCEPT ![p] =
                    IF CipherAccepts(EncryptionKey)
                    THEN [Call("encryptData", "") EXCEPT
                             !.pc = "done", !.arg = Some(data), !.res = Void,
                             !.out = Some(encryptData(data, EncryptionKey, iv))]
                    ELSE [Call("encryptData", "") EXCEPT
                             !.pc = "done", !.arg = Some(data),
                             !.res = Thrown("key-length")]]
    /\ UNCHANGED <<now, settings, dbAdapter, cache, files, db>>

\* decryptData(encryptedData, key) under the configured key, on the envelope
\* the call q has produced; arg keeps the text that envelope was made of
DecryptCall(p, q) ==
    /\ Free(p) /\ q # p
    /\ proc[q].op = "encryptData" /\ IsSome(proc[q].out)
    /\ \E o \in decryptData(Get(proc[q].out), EncryptionKey) :
         proc' = [proc EXCEPT ![p] =
                    [Call("decryptData", "") EXCEPT
                        !.pc = "done", !.arg = proc[q].arg, !.blob = proc[q].out,
                        !.nDecrypt = 1,
                        !.res = IF ~CipherAccepts(EncryptionKey)
                                THEN Thrown("key-length")
                                ELSE IF o.ok THEN Text(o.pt)
                                ELSE Thrown("decrypt")]]
    /\ UNCHANGED <<now, settings, dbAdapter, cache, files, db>>

CipherNext ==
    \/ \E K \in CipherKeys : UseKey(K)
    \/ \E p \in Procs, data \in Payloads : EncryptCall(p, data)
    \/ \E p, q \in Procs : DecryptCall(p, q)

SpecCipher == InitCipher /\ [][CipherNext]_vars

\* C29 (as claimed): for every payload and every key, encryptData returns an
\* envelope, and decryptData of that envelope under the same key, or under a
\* key that pads or truncates to the same 32 characters, returns the payload.
C29_CipherRoundTrip ==
    [][\A p \in Procs :
         /\ Returns(p, "encryptData")
            => proc'[p].res = Void /\ IsSome(proc'[p].out)
         /\ (/\ Returns(p, "decryptData")
             /\ Get(proc'[p].blob).key = NormalizeKey(EncryptionKey))
            => proc'[p].res = Text(Get(proc'[p].arg))]_vars

\* ------------------------------- one manager, a backend that does not fail
\* the step leaves the call p without an error of the backend or the cipher
NoFault(p) == proc'[p].storeErr = "" /\ proc'[p].res.tag # "error"

\* a file or database backend, the database with its adapter
InitNoFault ==
    /\ Init
    /\ StorageType \in {"encrypted-file", "database"}
    /\ dbAdapter

\* the calls of Next with every backend operation succeeding, and nothing
\* but the manager writing to the backend
NoFaultNext ==
    \/ Tick
    \/ \E p \in Procs, k \in Keys, r \in InputRecords : SaveBegin(p, k, r)
    \/ \E p \in Procs : SaveStore(p) /\ NoFault(p)
    \/ \E p \in Procs : DbWriteDone(p) /\ NoFault(p)
    \/ \E p \in Procs, k \in Keys, r \in RefreshInputs : RefreshBegin(p, k, r)
    \/ \E p \in Procs, k \in Keys : ClearBegin(p, k) /\ NoFault(p)
    \/ \E p \in Procs, k \in Keys : LoadBegin(p, k) /\ NoFault(p)
    \/ \E p \in Procs : LoadDbFound(p) /\ NoFault(p)
    \/ \E p \in Procs : LoadDecrypt(p)

SpecNoFault == InitNoFault /\ [][NoFaultNext]_vars

\* C30 (as claimed): whenever no call is in flight, a record the cache holds
\* for k is also what the backend holds for k: an envelope under the
\* configured key that decrypts to that record.
C30_CacheBackendCoherent ==
    Quiet => \A k \in Keys :
               IsSome(cache[k]) => HoldsRecord(Backend(k), Get(cache[k]))

\* ---------------------------------------------------- C31 .. C39
\* the cache and the backend agree on k: both hold nothing, or the backend
\* holds the envelope of the record the cache holds
Agree(k) ==
    \/ cache[k] = None /\ Backend(k) = None
    \/ IsSome(cache[k]) /\ HoldsRecord(Backend(k), Get(cache[k]))

\* p returns from a call of one of the methods a, b on k while the last call
\* of q, which has returned, was the other of the two on k
BothDone(p, q, a, b, k) ==
    /\ p # q
    /\ \/ Returns(p, a) /\ proc[q].op = b
       \/ Returns(p, b) /\ proc[q].op = a
    /\ proc[q].pc = "done"
    /\ proc'[p].key = k /\ proc[q].key = k

\* C31 (as claimed): once a saveAuthState(k, R) and a clearAuthState(k) of
\* one manager have both returned, the cache and the backend agree on k, so a
\* later load cannot bring back a session the cache no longer holds.
C31_SaveClearAgree ==
    [][\A p, q \in Procs, k \in Keys :
         BothDone(p, q, "save", "clear", k) => Agree(k)']_vars

\* C32 (as claimed): once two saveAuthState calls on k of one manager have
\* both returned, the cache and the backend hold the same record, whatever
\* order the backend writes finished in.
C32_TwoSavesAgree ==
    [][\A p, q \in Procs, k \in Keys :
         BothDone(p, q, "save", "save", k)
         => (IsSome(cache[k]) /\ HoldsRecord(Backend(k), Get(cache[k])))']_vars

\* C33: a loadAuthState(k) that returns the record it
\* has refreshed leaves that record in the cache and its envelope in the
\* backend; and a loadAuthState(k) started after it, while the cache still
\* holds that record and it has not expired, returns the same record at once,
\* without a refresh, a backend read or a backend write.
C33_RefreshedThenServed ==
    [][\A k \in Keys :
         /\ (/\ Returns("p2", "load") /\ proc'["p2"].key = k
             /\ proc'["p2"].via = "refresh" /\ proc'["p2"].res.tag = "value")
            => /\ cache'[k] = proc'["p2"].res.val
               /\ HoldsRecord(Backend(k)', Get(proc'["p2"].res.val))
         /\ (/\ proc["p2"].pc = "done" /\ proc["p2"].op = "load" /\ proc["p2"].key = k
             /\ proc["p2"].via = "refresh" /\ proc["p2"].res.tag = "value"
             /\ cache[k] = proc["p2"].res.val
             /\ isValid(Get(cache[k]))
             /\ Starts("p2", "load") /\ proc'["p2"].key = k)
            => /\ proc'["p2"].pc = "done"
               /\ proc'["p2"].res = proc["p2"].res
               /\ proc'["p2"].nRefresh = 0 /\ proc'["p2"].nStore = 0
               /\ proc'["p2"].nRetrieve = 0
               /\ UNCHANGED Stored]_vars

\* C33 witness: after the last save, a load has refreshed the record, and a
\* later load has been served that refreshed record from the cache
C33_Witness ==
    /\ proc["p1"].pc = "done" /\ proc["p1"].op = "save"
    /\ proc["p2"].pc = "done" /\ proc["p2"].op = "load"
    /\ proc["p2"].via = "cache" /\ proc["p2"].res.tag = "value"
    /\ Get(proc["p2"].res.val) \notin SeqRecords
    /\ HoldsRecord(Backend("solana-auth"), Get(proc["p2"].res.val))

\* the state of a cache entry at the time t (lines 64-67: an entry is served
\* while isValid holds for it)
CacheState(entry, t) ==
    IF entry = None THEN "Absent"
    ELSE IF t < Get(entry).expiresAt THEN "Cached-Valid"
    ELSE "Cached-Expired"

\* C34 (as claimed): the cache entry of a key moves only along
\* Absent -> Cached-Valid -> Cached-Expired -> (Cached-Valid | Absent): an
\* absent entry never becomes an expired one, a valid entry turns expired only
\* by the clock moving on, and an expired entry becomes valid only by a call
\* that puts a record into the cache.
C34_CacheEntryLifecycle ==
    [][\A k \in Keys :
         LET s == CacheState(cache[k], now)
             t == CacheState(cache'[k], now') IN
         /\ s = "Absent" => t \in {"Absent", "Cached-Valid"}
         /\ (s = "Cached-Valid" /\ t = "Cached-Expired")
            => now' > now /\ cache' = cache
         /\ (s = "Cached-Expired" /\ t = "Cached-Valid")
            => now' = now /\ \E p \in Procs :
                 /\ proc'[p] # proc[p]
                 /\ proc'[p].op \in {"save", "refresh", "load"}]_vars

\* the step is a step of a loadAuthState call of p
LoadStep(p) ==
    \/ \E k \in Keys : LoadBegin(p, k)
    \/ /\ proc[p].op = "load"
       /\ LoadDbFound(p) \/ LoadDecrypt(p) \/ SaveStore(p) \/ DbWriteDone(p)

C36_NoRetry ==
    \A p \in Procs :
        /\ proc[p].nRetrieve <= 1 /\ proc[p].nRefresh <= 1 /\ proc[p].nStore <= 1
        /\ proc[p].op = "load" => proc[p].nStore <= proc[p].nRefresh
        /\ proc[p].op \in {"save", "clear"} => proc[p].nRetrieve = 0 /\ proc[p].nRefresh = 0
        /\ (proc[p].pc = "done" /\ proc[p].op \in {"save", "refresh", "clear"})
           => proc[p].nStore = 1

\* C36 witness: a save and a clear have returned after their one store attempt
\* failed
C36_Witness ==
    \E p, q \in Procs :
        /\ proc[p].pc = "done" /\ proc[p].op = "save"
        /\ proc[p].res.tag = "error" /\ proc[p].nStore = 1
        /\ proc[q].pc = "done" /\ proc[q].op = "clear"
        /\ proc[q].res.tag = "error" /\ proc[q].nStore = 1

\* ------------------------------------------------------------- progress
\* the next step of the call p has in flight: the continuation after an await
\* on the cipher, the filesystem or the database adapter
Continue(p) ==
    SaveStore(p) \/ DbWriteDone(p) \/ LoadDbFound(p) \/ LoadDecrypt(p)

\* every backend and cipher call returns or fails, so the continuation of a
\* call in flight is eventually run
\* the calls of Next at one instant of the clock (no call waits for time to
\* pass); the record that is expired at that instant makes the loads refresh
FairNext ==
    \/ \E k \in Keys : Tamper(k)
    \/ \E p \in Procs, k \in Keys, r \in SeqRecords : SaveBegin(p, k, r)
    \/ \E p \in Procs : SaveStore(p)
    \/ \E p \in Procs : DbWriteDone(p)
    \/ \E p \in Procs, k \in Keys, r \in RefreshInputs : RefreshBegin(p, k, r)
    \/ \E p \in Procs, k \in Keys : ClearBegin(p, k)
    \/ \E p \in Procs, k \in Keys : LoadBegin(p, k)
    \/ \E p \in Procs : LoadDbFound(p)
    \/ \E p \in Procs : LoadDecrypt(p)

SpecFair == Init /\ [][FairNext]_vars /\ \A p \in Procs : WF_vars(Continue(p))

InFlight(p) == ~Free(p)

\* C37: every started save, load, refresh or clear
\* eventually returns (with a result, an error or null), whatever the other
\* calls of the manager do.
C37_EveryCallFinishes ==
    \A p \in Procs : InFlight(p) ~> proc[p].pc = "done"

\* C37 witness: a load that went through retrieve, decrypt, refresh and store
\* has returned while the other call is still waiting for the database adapter
C37_Witness ==
    /\ proc["p1"].pc = "done" /\ proc["p1"].op = "load"
    /\ proc["p1"].nRefresh = 1 /\ proc["p1"].nStore = 1
    /\ proc["p2"].pc = "dbwrite"

\* validateAuthState, part_006 lines 57-60: the expiry is after the timestamp
ExpiresAfterIssue(authState) == authState.expiresAt > authState.timestamp

\* the records a stored blob carries: the record of an envelope of a JSON text
RecordsIn(stored) ==
    IF IsSome(stored) /\ Get(stored).kind = "env" /\ Get(stored).pt.json
    THEN {Get(Get(stored).pt.val)} ELSE {}

\* C38 (as claimed): every record the cache holds, and every record in an
\* envelope written to a file or to the database, has expiresAt > timestamp.
C38_ExpiryAfterTimestamp ==
    \A k \in Keys :
        /\ IsSome(cache[k]) => ExpiresAfterIssue(Get(cache[k]))
        /\ \A r \in RecordsIn(files[FilePath(k)]) \cup RecordsIn(db[k]) :
               ExpiresAfterIssue(r)

\* the record was built by the authenticate handler: it carries the signature
\* the wallet adapter returned
CreatedByAuthenticate(authState) ==
    authState.signature = requestSignature(authState.walletPublicKey, None)

\* authStateTTL in seconds, 86400 when unset
ConfiguredSeconds ==
    IF settings.authStateTTL = None THEN 86400 ELSE Get(settings.authStateTTL)

\* C39 (as claimed): the record the authenticate handler builds has
\* expiresAt = creation time + authStateTTL seconds (86400 when unset); a load
\* started while the cache holds that record and less than the TTL has elapsed
\* returns it, and no load returns it once the TTL has elapsed.
C39_SessionExpiresAfterTTL ==
    [][/\ (AuthStep /\ proc[Handler].pc = "h-verify" /\ proc'[Handler].pc = "h-save")
          => LET r == Get(proc'[Handler].act.authState) IN
             /\ r.timestamp = now
             /\ r.expiresAt = now + ConfiguredSeconds * 1000
       /\ (/\ IsSome(cache[ServiceKey])
           /\ CreatedByAuthenticate(Get(cache[ServiceKey]))
           /\ now - Get(cache[ServiceKey]).timestamp < ConfiguredSeconds * 1000
           /\ HandlerLoad)
          => proc'[Manager].pc = "done" /\ proc'[Manager].res = Value(Get(cache[ServiceKey]))
       /\ (/\ Returns(Manager, "load") /\ proc'[Manager].res.tag = "value"
           /\ CreatedByAuthenticate(Get(proc'[Manager].res.val)))
          => now - Get(proc'[Manager].res.val).timestamp < ConfiguredSeconds * 1000]_vars

====
